---- MODULE Spec2Model ----
(***************************************************************************)
(* A model of the sandstorm Cairo prover front end:                        *)
(*   - the Word decoder of src/src/binary.rs and src/src/lib.rs,           *)
(*   - Memory::from_reader and the public-input extractor of binary.rs,    *)
(*   - ExecutionTrace::from_file of lib.rs,                                *)
(*   - the stage sequence of DefaultCairoProver::generate_proof            *)
(*     (src/src/prover.rs).                                                *)
(*                                                                         *)
(* A U256 is a sequence of 32 bytes, least significant first, as           *)
(* U256::from_le_bytes reads it.  A usize is an integer; a negative        *)
(* integer -k stands for the wrapped value 2^64 - k that an unchecked      *)
(* subtraction leaves.  A field element of the 252-bit prime field is a    *)
(* reduced fraction <<n, d>> of small naturals standing for n * d^(-1):    *)
(* the prime is far above every product formed here, so equality and       *)
(* arithmetic of these fractions are those of the field.                   *)
(***************************************************************************)
EXTENDS Integers, Sequences, FiniteSets, TLC

VARIABLES
    debug_assertions,   \* build profile: debug_assert! is compiled in
    overflow_checks,    \* build profile: usize arithmetic panics on overflow
    insn,               \* decoder: the instruction fields the Word was assembled from
    word,               \* decoder: the Word under decoding (32 LE bytes)
    call,               \* decoder: the last accessor call, its arguments and result
    stream,             \* loader: the memory stream, a sequence of (address, raw) records
    register_states,    \* loader: the register-state sequence
    ld_pc,              \* loader: position in Memory::from_reader / ExecutionTrace::from_file
    memory,             \* loader: the outcome of Memory construction
    row,                \* loader: index of the next register state to process
    printed,            \* loader: the rows whose flag prefixes were printed
    program,            \* public inputs: CompiledProgram.data
    pub_call,           \* public inputs: the last extractor call and its result
    trace,              \* prover: shape of the trace handed to generate_proof
    pv_pc,              \* prover: position in generate_proof
    transcript,         \* prover: the channel's absorptions and draws, in order
    fri_layers,         \* prover: FRI layers committed so far
    outcome             \* prover: how generate_proof ended

cfgVars == <<debug_assertions, overflow_checks>>
decVars == <<insn, word, call>>
ldVars  == <<stream, register_states, ld_pc, memory, row, printed>>
pubVars == <<program, pub_call>>
pvVars  == <<trace, pv_pc, transcript, fri_layers, outcome>>
vars    == <<cfgVars, decVars, ldVars, pubVars, pvVars>>

----------------------------------------------------------------------------
(* Bounds of the model. *)

MaxReg == 1        \* pc, ap, fp range over 0..MaxReg
MaxAddr == 2       \* addresses of the memory stream range over 0..MaxAddr
MaxRecords == 3    \* records of a memory stream
MaxTraceRecords == 2   \* records of the memory file read by ExecutionTrace::from_file
MaxRows == 2       \* register states read by ExecutionTrace::from_file
MaxData == 3       \* data entries of a compiled program
MaxCols == 2       \* columns of a base or extension trace
MaxFriLayers == 2  \* FRI layers of a proof

----------------------------------------------------------------------------
(* U256: ruint::aliases::U256 as 32 little-endian bytes. *)

WORD_BYTES == 32

ByteIdx == 1..WORD_BYTES

\* U256::from(n) for 0 <= n < 2^31.
U256_from(n) ==
    [j \in ByteIdx |-> IF j <= 4 THEN (n \div (256 ^ (j - 1))) % 256 ELSE 0]

\* Uint::bit(index)
U256_bit(w, n) ==
    IF n < 0 \/ n >= 8 * WORD_BYTES THEN 0
    ELSE (w[(n \div 8) + 1] \div (2 ^ (n % 8))) % 2

\* Byte k (counted from 0) of w, zero outside the word
U256_byte(w, k) == IF k < 0 \/ k >= WORD_BYTES THEN 0 ELSE w[k + 1]

\* self >> n: each byte gathers the top of one source byte and the bottom
\* of the next
U256_shr(w, n) ==
    [j \in ByteIdx |->
        LET q == n \div 8
            r == n % 8
            lo == U256_byte(w, j - 1 + q)
            hi == U256_byte(w, j + q)
        IN  ((lo \div (2 ^ r)) + hi * (2 ^ (8 - r))) % 256]

\* self << n
U256_shl(w, n) ==
    [j \in ByteIdx |->
        LET q == n \div 8
            r == n % 8
            lo == U256_byte(w, j - 2 - q)
            hi == U256_byte(w, j - 1 - q)
        IN  (hi * (2 ^ r) + (lo \div (2 ^ (8 - r)))) % 256]

\* x & y on bytes
Byte_and(x, y) ==
    IF x = 0 \/ y = 0 THEN 0
    ELSE IF y = 255 THEN x
    ELSE IF x = 255 THEN y
    ELSE LET c(k) == ((x \div (2 ^ k)) % 2) * ((y \div (2 ^ k)) % 2)
         IN  c(0) + 2 * c(1) + 4 * c(2) + 8 * c(3)
             + 16 * c(4) + 32 * c(5) + 64 * c(6) + 128 * c(7)

\* a & b
U256_and(a, b) ==
    [j \in ByteIdx |-> LET y == b[j] IN IF y = 0 THEN 0 ELSE Byte_and(a[j], y)]

RECURSIVE U256_sub_from(_, _, _, _)
U256_sub_from(a, b, j, borrow) ==
    IF j > WORD_BYTES THEN <<>>
    ELSE LET d == a[j] - b[j] - borrow
         IN  <<(d + 256) % 256>>
             \o U256_sub_from(a, b, j + 1, IF d < 0 THEN 1 ELSE 0)

\* a - b (the callers never borrow out of the top byte)
U256_sub(a, b) == U256_sub_from(a, b, 1, 0)

RECURSIVE U256_lt_from(_, _, _)
U256_lt_from(a, b, j) ==
    IF j = 0 THEN FALSE
    ELSE IF a[j] # b[j] THEN a[j] < b[j]
    ELSE U256_lt_from(a, b, j - 1)

\* a < b, as BigUint compares
U256_lt(a, b) == U256_lt_from(a, b, WORD_BYTES)

\* Whether the value fits 64 bits: what try_into::<usize/u64>() tests.
U256_fits_u64(w) == \A j \in 9..WORD_BYTES : w[j] = 0

\* The value of a U256 below 2^31 (the model keeps converted values there).
U256_val(w) == w[1] + 256 * w[2] + 65536 * w[3] + 16777216 * w[4]

----------------------------------------------------------------------------
(* The field F.  lib.rs fixes it to the 252-bit prime                      *)
(* 2^251 + 17 * 2^192 + 1; binary.rs is generic over it.                   *)

\* F::MODULUS as a U256
MODULUS ==
    [j \in ByteIdx |-> IF j = 1 THEN 1 ELSE IF j = 25 THEN 17
                       ELSE IF j = 32 THEN 8 ELSE 0]

RECURSIVE GCD(_, _)
GCD(a, b) == IF b = 0 THEN a ELSE GCD(b, a % b)

F_norm(n, d) == IF n = 0 THEN <<0, 1>> ELSE <<n \div GCD(n, d), d \div GCD(n, d)>>

\* F::zero(), F::one()
F_zero == <<0, 1>>
F_one == <<1, 1>>

\* F::from(n: u64)
F_from(n) == <<n, 1>>

\* a + b, a * b in F
F_add(x, y) == F_norm(x[1] * y[2] + y[1] * x[2], x[2] * y[2])
F_mul(x, y) == F_norm(x[1] * y[1], x[2] * y[2])

\* Field::inverse: None for zero, Some(x^(-1)) otherwise
F_inverse(x) ==
    IF x[1] = 0 THEN [some |-> FALSE, val |-> F_zero]
    ELSE [some |-> TRUE, val |-> <<x[2], x[1]>>]

\* BigUint -> F: the residue modulo F::MODULUS
RECURSIVE U256_reduce(_)
U256_reduce(w) ==
    IF U256_lt(w, MODULUS) THEN w ELSE U256_reduce(U256_sub(w, MODULUS))

----------------------------------------------------------------------------
(* Bit layout of an instruction word (binary.rs, lib.rs). *)

OFF_DST_BIT_OFFSET == 0
OFF_OP0_BIT_OFFSET == 16
OFF_OP1_BIT_OFFSET == 32
FLAGS_BIT_OFFSET == 48
NUM_FLAGS == 16
OFF_MASK == 65535
HALF_OFFSET == 2 ^ 15

\* enum Flag, in declaration order
FLAG_DST_REG == 0
FLAG_OP0_REG == 1
FLAG_OP1_IMM == 2
FLAG_OP1_FP == 3
FLAG_OP1_AP == 4
FLAG_RES_ADD == 5
FLAG_RES_MUL == 6
FLAG_PC_JUMP_ABS == 7
FLAG_PC_JUMP_REL == 8
FLAG_PC_JNZ == 9
FLAG_AP_ADD == 10
FLAG_AP_ADD1 == 11
FLAG_OPCODE_CALL == 12
FLAG_OPCODE_RET == 13
FLAG_OPCODE_ASSERT_EQ == 14
FLAG_ZERO == 15

Flags == 0..(NUM_FLAGS - 1)

FlagGroups == {"DstReg", "Op0Reg", "Op1Src", "ResLogic", "PcUpdate", "ApUpdate", "Opcode"}

----------------------------------------------------------------------------
(* Results of fallible calls.  A panic carries its message; `reads` is the *)
(* set of memory addresses the call indexed.                               *)

Ok(v, rd) == [ok |-> TRUE, val |-> v, msg |-> "", reads |-> rd]
PanicU(m, rd) == [ok |-> FALSE, val |-> 0, msg |-> m, reads |-> rd]
PanicF(m, rd) == [ok |-> FALSE, val |-> F_zero, msg |-> m, reads |-> rd]

\* Option<Word>
None == [some |-> FALSE, word |-> U256_from(0)]
Some(w) == [some |-> TRUE, word |-> w]

\* a - b on usize
usize_sub(a, b) ==
    IF a < b /\ overflow_checks
    THEN PanicU("subtract with overflow", {})
    ELSE Ok(a - b, {})

\* mem[addr] on the Vec behind Memory; address a is element a + 1
mem_index(mem, addr) ==
    IF addr < 0 \/ addr >= Len(mem)
    THEN [ok |-> FALSE, val |-> None, msg |-> "index out of bounds", reads |-> {addr}]
    ELSE [ok |-> TRUE, val |-> mem[addr + 1], msg |-> "", reads |-> {addr}]

----------------------------------------------------------------------------
(* The Word decoder of binary.rs. *)

B2I(b) == IF b THEN 1 ELSE 0

\* Word::new: the modulus test is a debug_assert!
Word_new(w) ==
    IF debug_assertions /\ ~U256_lt(w, MODULUS)
    THEN [ok |-> FALSE, val |-> w, msg |-> "debug_assert", reads |-> {}]
    ELSE Ok(w, {})

\* Word::into_felt
into_felt(w) == F_from(U256_val(U256_reduce(w)))

\* get_flag reading one bit too high
get_flag_shifted(w, flag) == U256_bit(w, FLAGS_BIT_OFFSET + flag + 1) = 1

\* Word::get_flag
get_flag(w, flag) == U256_bit(w, FLAGS_BIT_OFFSET + flag) = 1

\* Word::get_off_dst / get_off_op0 / get_off_op1; the masked value always
\* fits a usize, so try_into().unwrap() cannot fail
get_off_dst(w) == U256_val(U256_and(U256_shr(w, OFF_DST_BIT_OFFSET), U256_from(OFF_MASK)))
get_off_op0(w) == U256_val(U256_and(U256_shr(w, OFF_OP0_BIT_OFFSET), U256_from(OFF_MASK)))
get_off_op1(w) == U256_val(U256_and(U256_shr(w, OFF_OP1_BIT_OFFSET), U256_from(OFF_MASK)))

\* get_flag_prefix shifting from the flag above the one asked for
get_flag_prefix_above(w, flag) ==
    IF flag = FLAG_ZERO THEN 0
    ELSE LET prefix == U256_shr(w, FLAGS_BIT_OFFSET + flag + 1)
             mask == U256_sub(U256_shl(U256_from(1), 15 - flag), U256_from(1))
         IN  U256_val(U256_and(prefix, mask))

\* Word::get_flag_prefix (binary.rs)
get_flag_prefix(w, flag) ==
    IF flag = FLAG_ZERO THEN 0
    ELSE LET prefix == U256_shr(w, FLAGS_BIT_OFFSET + flag)
             mask == U256_sub(U256_shl(U256_from(1), 15 - flag), U256_from(1))
         IN  U256_val(U256_and(prefix, mask))

\* Word::get_flag_group
get_flag_group(w, flag_group) ==
    CASE flag_group = "DstReg" -> B2I(get_flag(w, FLAG_DST_REG))
      [] flag_group = "Op0Reg" -> B2I(get_flag(w, FLAG_OP0_REG))
      [] flag_group = "Op1Src" ->
            B2I(get_flag(w, FLAG_OP1_IMM))
            + B2I(get_flag(w, FLAG_OP1_FP)) * 2
            + B2I(get_flag(w, FLAG_OP1_AP)) * 4
      [] flag_group = "ResLogic" ->
            B2I(get_flag(w, FLAG_RES_ADD)) + B2I(get_flag(w, FLAG_RES_MUL)) * 2
      [] flag_group = "PcUpdate" ->
            B2I(get_flag(w, FLAG_PC_JUMP_ABS))
            + B2I(get_flag(w, FLAG_PC_JUMP_REL)) * 2
            + B2I(get_flag(w, FLAG_PC_JNZ)) * 4
      [] flag_group = "ApUpdate" ->
            B2I(get_flag(w, FLAG_AP_ADD)) + B2I(get_flag(w, FLAG_AP_ADD1)) * 2
      [] flag_group = "Opcode" ->
            B2I(get_flag(w, FLAG_OPCODE_CALL))
            + B2I(get_flag(w, FLAG_OPCODE_RET)) * 2
            + B2I(get_flag(w, FLAG_OPCODE_ASSERT_EQ)) * 4

\* Word::get_op0_addr
get_op0_addr(w, ap, fp) ==
    usize_sub(get_off_op0(w) + (IF get_flag(w, FLAG_OP0_REG) THEN fp ELSE ap), HALF_OFFSET)

\* Word::get_dst_addr
get_dst_addr(w, ap, fp) ==
    usize_sub(get_off_dst(w) + (IF get_flag(w, FLAG_DST_REG) THEN fp ELSE ap), HALF_OFFSET)

\* Option::unwrap on an indexed cell
unwrap_cell(cell, rd) ==
    IF ~cell.ok THEN [cell EXCEPT !.reads = rd \cup cell.reads]
    ELSE IF ~cell.val.some
    THEN [ok |-> FALSE, val |-> None, msg |-> "unwrap on None", reads |-> rd \cup cell.reads]
    ELSE [ok |-> TRUE, val |-> cell.val, msg |-> "", reads |-> rd \cup cell.reads]

\* mem[addr].unwrap(), addr itself the result of a fallible computation
mem_unwrap(mem, addr) ==
    IF ~addr.ok THEN [ok |-> FALSE, val |-> None, msg |-> addr.msg, reads |-> addr.reads]
    ELSE unwrap_cell(mem_index(mem, addr.val), addr.reads)

\* .into_felt() on an unwrapped cell
cell_felt(cell) ==
    IF cell.ok THEN Ok(into_felt(cell.val.word), cell.reads)
    ELSE PanicF(cell.msg, cell.reads)

\* Word::get_op0
get_op0(w, ap, fp, mem) == cell_felt(mem_unwrap(mem, get_op0_addr(w, ap, fp)))

\* Word::get_dst
get_dst(w, ap, fp, mem) == cell_felt(mem_unwrap(mem, get_dst_addr(w, ap, fp)))

\* usize::try_from(cell.0).unwrap(): arm 0 of the match in get_op1_addr
op1_indirect(cell) ==
    IF ~cell.ok THEN PanicU(cell.msg, cell.reads)
    ELSE IF ~U256_fits_u64(cell.val.word) THEN PanicU("unwrap on Err", cell.reads)
    ELSE Ok(U256_val(cell.val.word), cell.reads)

\* The match with the immediate arm taking its base from memory, as arm 0 does
op1_base_imm_indirect(src, w, pc, ap, fp, mem) ==
    CASE src \in {0, 1} -> op1_indirect(mem_unwrap(mem, get_op0_addr(w, ap, fp)))
      [] src = 2 -> Ok(fp, {})
      [] src = 4 -> Ok(ap, {})
      [] OTHER -> PanicU("unreachable", {})

\* The match on the Op1Src group inside get_op1_addr
op1_base(src, w, pc, ap, fp, mem) ==
    CASE src = 0 -> op1_indirect(mem_unwrap(mem, get_op0_addr(w, ap, fp)))
      [] src = 1 -> Ok(pc, {})
      [] src = 2 -> Ok(fp, {})
      [] src = 4 -> Ok(ap, {})
      [] OTHER -> PanicU("unreachable", {})

\* off_op1 + base - HALF_OFFSET
op1_addr_of(off_op1, base) ==
    IF ~base.ok THEN base
    ELSE [usize_sub(off_op1 + base.val, HALF_OFFSET) EXCEPT !.reads = base.reads]

\* Word::get_op1_addr
get_op1_addr(w, pc, ap, fp, mem) ==
    op1_addr_of(get_off_op1(w), op1_base(get_flag_group(w, "Op1Src"), w, pc, ap, fp, mem))

\* Word::get_op1
get_op1(w, pc, ap, fp, mem) == cell_felt(mem_unwrap(mem, get_op1_addr(w, pc, ap, fp, mem)))

\* The fallback taken as one instead of zero
inverse_or_one(inv) == IF inv.some THEN inv.val ELSE F_one

\* .inverse().unwrap_or_else(F::zero)
inverse_or_zero(inv) == IF inv.some THEN inv.val ELSE F_zero

\* get_res, the conditional jump: dst^(-1)
res_jnz(dst) ==
    IF ~dst.ok THEN dst ELSE Ok(inverse_or_zero(F_inverse(dst.val)), dst.reads)

\* The match on res_logic with a catch-all arm that yields op1
res_of_operands_default_op1(res_logic, op0, op1) ==
    IF ~op0.ok THEN op0
    ELSE IF ~op1.ok THEN [op1 EXCEPT !.reads = op0.reads \cup op1.reads]
    ELSE CASE res_logic = 1 -> Ok(F_add(op0.val, op1.val), op0.reads \cup op1.reads)
           [] res_logic = 2 -> Ok(F_mul(op0.val, op1.val), op0.reads \cup op1.reads)
           [] OTHER -> Ok(op1.val, op0.reads \cup op1.reads)

\* get_res, pc_update 0, 1, 2: op0 is read, then op1, then res_logic is matched
res_of_operands(res_logic, op0, op1) ==
    IF ~op0.ok THEN op0
    ELSE IF ~op1.ok THEN [op1 EXCEPT !.reads = op0.reads \cup op1.reads]
    ELSE CASE res_logic = 0 -> Ok(op1.val, op0.reads \cup op1.reads)
           [] res_logic = 1 -> Ok(F_add(op0.val, op1.val), op0.reads \cup op1.reads)
           [] res_logic = 2 -> Ok(F_mul(op0.val, op1.val), op0.reads \cup op1.reads)
           [] OTHER -> PanicF("unreachable", op0.reads \cup op1.reads)

\* The match on pc_update inside get_res
res_match(pc_update, res_logic, opcode, ap_update, w, pc, ap, fp, mem) ==
    CASE pc_update = 4 ->
           IF res_logic = 0 /\ opcode = 0 /\ ap_update # 1
           THEN res_jnz(get_dst(w, ap, fp, mem))
           ELSE PanicF("unreachable", {})
      [] pc_update \in {0, 1, 2} ->
           res_of_operands(res_logic, get_op0(w, ap, fp, mem), get_op1(w, pc, ap, fp, mem))
      [] OTHER -> PanicF("unreachable", {})

\* Word::get_res
get_res(w, pc, ap, fp, mem) ==
    res_match(get_flag_group(w, "PcUpdate"), get_flag_group(w, "ResLogic"),
              get_flag_group(w, "Opcode"), get_flag_group(w, "ApUpdate"),
              w, pc, ap, fp, mem)

\* Word::get_tmp0
get_tmp0(w, ap, fp, mem) ==
    IF get_flag(w, FLAG_PC_JNZ) THEN get_dst(w, ap, fp, mem) ELSE Ok(F_zero, {})

\* tmp0 and res added instead of multiplied
tmp1_of_sum(tmp0, res) ==
    IF ~tmp0.ok THEN tmp0
    ELSE IF ~res.ok THEN [res EXCEPT !.reads = tmp0.reads \cup res.reads]
    ELSE Ok(F_add(tmp0.val, res.val), tmp0.reads \cup res.reads)

\* tmp0 * res: tmp0 is computed first
tmp1_of(tmp0, res) ==
    IF ~tmp0.ok THEN tmp0
    ELSE IF ~res.ok THEN [res EXCEPT !.reads = tmp0.reads \cup res.reads]
    ELSE Ok(F_mul(tmp0.val, res.val), tmp0.reads \cup res.reads)

\* Word::get_tmp1
get_tmp1(w, pc, ap, fp, mem) ==
    tmp1_of(get_tmp0(w, ap, fp, mem), get_res(w, pc, ap, fp, mem))

----------------------------------------------------------------------------
(* Inputs of the decoder: instruction words assembled field by field, in   *)
(* the layout of the Cairo whitepaper (figure 3), and sample memories.     *)

RECURSIVE FlagsVal(_)
FlagsVal(S) ==
    IF S = {} THEN 0
    ELSE LET i == CHOOSE x \in S : TRUE IN (2 ^ i) + FlagsVal(S \ {i})

\* Bytes 9..32 of a sample word
HighByte(hi, j) ==
    CASE hi = "zero" -> 0
      [] hi = "bit64" -> IF j = 9 THEN 1 ELSE 0
      [] hi = "below_modulus" -> IF j = 32 THEN 7 ELSE 255
      [] hi = "ones" -> 255

EncodeWord(f) ==
    [j \in ByteIdx |->
        CASE j = 1 -> f.off_dst % 256
          [] j = 2 -> f.off_dst \div 256
          [] j = 3 -> f.off_op0 % 256
          [] j = 4 -> f.off_op0 \div 256
          [] j = 5 -> f.off_op1 % 256
          [] j = 6 -> f.off_op1 \div 256
          [] j = 7 -> FlagsVal(f.flags) % 256
          [] j = 8 -> FlagsVal(f.flags) \div 256
          [] OTHER -> HighByte(f.hi, j)]

Insn(od, o0, o1, fl, hi) ==
    [off_dst |-> od, off_op0 |-> o0, off_op1 |-> o1, flags |-> fl, hi |-> hi]

\* The flags that give each group the value v
GroupFlags(first, width, v) ==
    {first + k : k \in {k \in 0..(width - 1) : (v \div (2 ^ k)) % 2 = 1}}

FlagsOf(dst_reg, op0_reg, op1_src, res_logic, pc_update, ap_update, opcode) ==
    GroupFlags(FLAG_DST_REG, 1, dst_reg) \cup GroupFlags(FLAG_OP0_REG, 1, op0_reg)
    \cup GroupFlags(FLAG_OP1_IMM, 3, op1_src) \cup GroupFlags(FLAG_RES_ADD, 2, res_logic)
    \cup GroupFlags(FLAG_PC_JUMP_ABS, 3, pc_update) \cup GroupFlags(FLAG_AP_ADD, 2, ap_update)
    \cup GroupFlags(FLAG_OPCODE_CALL, 3, opcode)

\* Words for the bit-level accessors: every single flag, every flag but
\* one, none and all, over offsets with distinct bit patterns
BitFlagSets ==
    {{i} : i \in Flags} \cup {Flags \ {i} : i \in Flags} \cup {{}, Flags}

BitOffsets ==
    {<<0, 0, 0>>, <<4660, 43981, 32769>>, <<65535, 0, 65535>>, <<32768, 65535, 1>>}

BitInsns ==
    {Insn(o[1], o[2], o[3], fl, hi) :
        o \in BitOffsets, fl \in BitFlagSets,
        hi \in {"zero", "bit64", "below_modulus", "ones"}}

\* Words for the operand accessors
OperandFlagSets ==
    {FlagsOf(0, r, s, 0, 0, 0, 0) : r \in 0..1, s \in 0..7}
    \cup {FlagsOf(0, 1, 1, l, p, 0, 0) : l \in 0..3, p \in 0..7}
    \cup {FlagsOf(d, 0, 2, l, 4, a, o) : d \in 0..1, l \in 0..1, a \in 0..3, o \in 0..1}

OperandOffsets ==
    {<<32768, 32768, 32768>>, <<32769, 32768, 32769>>, <<0, 0, 0>>}

OperandInsns ==
    {Insn(o[1], o[2], o[3], fl, "zero") : o \in OperandOffsets, fl \in OperandFlagSets}

\* F::MODULUS + 2
MODULUS_plus_2 == [MODULUS EXCEPT ![1] = 3]

\* Sample memories: present, absent and out-of-range cells at the
\* addresses the operand offsets reach; the last holds words Word::new
\* lets through only without debug assertions (they exceed 2^64, and
\* their residues are 0 and 2)
MemSamples ==
    { <<>>,
      <<Some(U256_from(1)), None, Some(U256_from(2))>>,
      <<None, Some(U256_from(0)), Some(U256_from(3))>>,
      <<Some(U256_from(2)), Some(U256_from(2)), Some(U256_from(0)), Some(U256_from(1))>> }
    \cup (IF debug_assertions THEN {}
          ELSE {<<Some(MODULUS), Some(MODULUS_plus_2), Some(U256_from(1))>>})

Regs == 0..MaxReg

----------------------------------------------------------------------------
(* Idle values of the parts a specification does not exercise. *)

DecIdle ==
    /\ insn = Insn(0, 0, 0, {}, "zero")
    /\ word = U256_from(0)
    /\ call = [fn |-> "none", arg |-> <<>>, ret |-> 0]

LdIdle ==
    /\ stream = <<>>
    /\ register_states = <<>>
    /\ ld_pc = "idle"
    /\ memory = [ok |-> TRUE, cells |-> <<>>]
    /\ row = 0
    /\ printed = <<>>

PubIdle ==
    /\ program = <<>>
    /\ pub_call = [fn |-> "none", ret |-> 0]

PvIdle ==
    /\ trace = [NUM_BASE_COLUMNS |-> 1, NUM_EXTENSION_COLUMNS |-> 0,
                base_columns |-> 1, extension_columns |-> [some |-> FALSE, cols |-> 0],
                num_layers |-> 0]
    /\ pv_pc = "idle"
    /\ transcript = <<>>
    /\ fri_layers = 0
    /\ outcome = "none"

----------------------------------------------------------------------------
(* The decoder applied to a Word: one action per accessor. *)

\* A Word exists only through Word::new
InitWordOf(insns) ==
    /\ debug_assertions \in BOOLEAN
    /\ overflow_checks = debug_assertions
    /\ insn \in insns
    /\ Word_new(EncodeWord(insn)).ok
    /\ word = Word_new(EncodeWord(insn)).val
    /\ call = [fn |-> "none", arg |-> <<>>, ret |-> 0]
    /\ LdIdle /\ PubIdle /\ PvIdle

\* Each run applies one accessor to its Word
Return(fn, arg, ret) ==
    /\ call.fn = "none"
    /\ call' = [fn |-> fn, arg |-> arg, ret |-> ret]
    /\ UNCHANGED <<insn, word, cfgVars, ldVars, pubVars, pvVars>>

CallGetFlag == \E flag \in Flags : Return("get_flag", <<flag>>, get_flag(word, flag))

CallGetOffDst == Return("get_off_dst", <<>>, get_off_dst(word))

CallGetOffOp0 == Return("get_off_op0", <<>>, get_off_op0(word))

CallGetOffOp1 == Return("get_off_op1", <<>>, get_off_op1(word))

CallGetFlagPrefix ==
    \E flag \in Flags : Return("get_flag_prefix", <<flag>>, get_flag_prefix(word, flag))

CallGetFlagGroup ==
    \E g \in FlagGroups : Return("get_flag_group", <<g>>, get_flag_group(word, g))

InitWord == InitWordOf(BitInsns)

NextWord ==
    \/ CallGetFlag
    \/ CallGetOffDst
    \/ CallGetOffOp0
    \/ CallGetOffOp1
    \/ CallGetFlagPrefix
    \/ CallGetFlagGroup

SpecWord == InitWord /\ [][NextWord]_vars

CallGetOp0Addr ==
    \E ap \in Regs, fp \in Regs :
        Return("get_op0_addr", <<ap, fp>>, get_op0_addr(word, ap, fp))

CallGetDstAddr ==
    \E ap \in Regs, fp \in Regs :
        Return("get_dst_addr", <<ap, fp>>, get_dst_addr(word, ap, fp))

CallGetDst ==
    \E ap \in Regs, fp \in Regs, mem \in MemSamples :
        Return("get_dst", <<ap, fp, mem>>, get_dst(word, ap, fp, mem))

CallGetOp1Addr ==
    \E pc \in Regs, ap \in Regs, fp \in Regs, mem \in MemSamples :
        Return("get_op1_addr", <<pc, ap, fp, mem>>, get_op1_addr(word, pc, ap, fp, mem))

CallGetRes ==
    \E pc \in Regs, ap \in Regs, fp \in Regs, mem \in MemSamples :
        Return("get_res", <<pc, ap, fp, mem>>, get_res(word, pc, ap, fp, mem))

CallGetTmp0 ==
    \E ap \in Regs, fp \in Regs, mem \in MemSamples :
        Return("get_tmp0", <<ap, fp, mem>>, get_tmp0(word, ap, fp, mem))

CallGetTmp1 ==
    \E pc \in Regs, ap \in Regs, fp \in Regs, mem \in MemSamples :
        Return("get_tmp1", <<pc, ap, fp, mem>>, get_tmp1(word, pc, ap, fp, mem))

InitOperand == InitWordOf(OperandInsns)

NextOperand ==
    \/ CallGetOp0Addr
    \/ CallGetDstAddr
    \/ CallGetDst
    \/ CallGetOp1Addr
    \/ CallGetRes
    \/ CallGetTmp0
    \/ CallGetTmp1

SpecOperand == InitOperand /\ [][NextOperand]_vars

----------------------------------------------------------------------------
(* The Word decoder of lib.rs, where it differs from binary.rs. *)

\* Word::get_flag_prefix (lib.rs)
lib_get_flag_prefix(w, flag) ==
    IF flag = FLAG_ZERO THEN 0
    ELSE LET prefix == U256_shr(w, FLAGS_BIT_OFFSET + flag)
             mask == U256_sub(U256_shl(U256_from(1), 14 - flag), U256_from(1))
         IN  U256_val(U256_and(prefix, mask))

\* Word::get_flag (lib.rs)
lib_get_flag(w, flag) == U256_bit(w, FLAGS_BIT_OFFSET + flag) = 1

\* Word::get_flag_group (lib.rs)
lib_get_flag_group(w, flag_group) ==
    CASE flag_group = "DstReg" -> B2I(lib_get_flag(w, FLAG_DST_REG))
      [] flag_group = "Op0Reg" -> B2I(lib_get_flag(w, FLAG_OP0_REG))
      [] flag_group = "Op1Src" ->
            B2I(lib_get_flag(w, FLAG_OP1_IMM))
            + B2I(lib_get_flag(w, FLAG_OP1_FP)) * 2
            + B2I(lib_get_flag(w, FLAG_OP1_AP)) * 4
      [] flag_group = "ResLogic" ->
            B2I(lib_get_flag(w, FLAG_RES_ADD)) + B2I(lib_get_flag(w, FLAG_RES_MUL)) * 2
      [] flag_group = "PcUpdate" ->
            B2I(lib_get_flag(w, FLAG_PC_JUMP_ABS))
            + B2I(lib_get_flag(w, FLAG_PC_JUMP_REL)) * 2
            + B2I(lib_get_flag(w, FLAG_PC_JNZ)) * 4
      [] flag_group = "ApUpdate" ->
            B2I(lib_get_flag(w, FLAG_AP_ADD)) + B2I(lib_get_flag(w, FLAG_AP_ADD1)) * 2
      [] flag_group = "Opcode" ->
            B2I(lib_get_flag(w, FLAG_OPCODE_CALL))
            + B2I(lib_get_flag(w, FLAG_OPCODE_RET)) * 2
            + B2I(lib_get_flag(w, FLAG_OPCODE_ASSERT_EQ)) * 4

\* The lib.rs decoder applied to a Word: one action per accessor
CallLibGetFlagPrefix ==
    \E flag \in Flags :
        Return("lib_get_flag_prefix", <<flag>>, lib_get_flag_prefix(word, flag))

CallLibGetFlag ==
    \E flag \in Flags : Return("lib_get_flag", <<flag>>, lib_get_flag(word, flag))

CallLibGetFlagGroup ==
    \E g \in FlagGroups : Return("lib_get_flag_group", <<g>>, lib_get_flag_group(word, g))

InitLib == InitWordOf(BitInsns)

NextLib ==
    \/ CallLibGetFlagPrefix
    \/ CallLibGetFlag
    \/ CallLibGetFlagGroup

SpecLib == InitLib /\ [][NextLib]_vars

----------------------------------------------------------------------------
(* Memory::from_reader (binary.rs) and Memory::from_file (lib.rs): the     *)
(* same two loops.  A stream is a sequence of [address, raw] records.      *)

Max(a, b) == IF a >= b THEN a ELSE b

\* The reading loop: Word::new on each record, the maximum address kept
RECURSIVE push_records(_, _, _, _)
push_records(s, k, partial_memory, max_address) ==
    IF k > Len(s)
    THEN [ok |-> TRUE, partial_memory |-> partial_memory, max_address |-> max_address]
    ELSE IF ~Word_new(s[k].raw).ok
    THEN [ok |-> FALSE, partial_memory |-> partial_memory, max_address |-> max_address]
    ELSE push_records(s, k + 1,
                      Append(partial_memory, [address |-> s[k].address,
                                              word |-> Word_new(s[k].raw).val]),
                      Max(max_address, s[k].address))

\* vec![None; max_address + 2]: one cell too many
new_memory_too_long(max_address) == [j \in 1..(max_address + 2) |-> None]

\* vec![None; max_address + 1]
new_memory(max_address) == [j \in 1..(max_address + 1) |-> None]

\* The storing loop: memory[address] = Some(word), in stream order
RECURSIVE store_records(_, _, _)
store_records(mem, partial_memory, k) ==
    IF k > Len(partial_memory) THEN mem
    ELSE store_records([mem EXCEPT ![partial_memory[k].address + 1] = Some(partial_memory[k].word)],
                       partial_memory, k + 1)

memory_of(pushed) ==
    IF ~pushed.ok THEN [ok |-> FALSE, cells |-> <<>>]
    ELSE [ok |-> TRUE,
          cells |-> store_records(new_memory(pushed.max_address), pushed.partial_memory, 1)]

\* Memory::from_reader (binary.rs)
Memory_from_reader(s) == memory_of(push_records(s, 1, <<>>, 0))

\* Memory::from_file (lib.rs)
Memory_from_file(s) == memory_of(push_records(s, 1, <<>>, 0))

\* F::MODULUS - 1
MODULUS_minus_1 == [MODULUS EXCEPT ![1] = 0]

\* Raw 256-bit values of a stream: a small one, the largest below the
\* modulus, and the modulus itself
RawSamples == {U256_from(5), MODULUS_minus_1, MODULUS}

Records == {[address |-> a, raw |-> r] : a \in 0..MaxAddr, r \in RawSamples}

RECURSIVE SeqsUpTo(_, _)
SeqsUpTo(S, n) ==
    IF n = 0 THEN {<<>>}
    ELSE SeqsUpTo(S, n - 1) \cup {Append(q, x) : q \in {p \in SeqsUpTo(S, n - 1) : Len(p) = n - 1}, x \in S}

InitMemory ==
    /\ debug_assertions \in BOOLEAN
    /\ overflow_checks = debug_assertions
    /\ stream \in SeqsUpTo(Records, MaxRecords)
    /\ register_states = <<>>
    /\ ld_pc = "start"
    /\ memory = [ok |-> TRUE, cells |-> <<>>]
    /\ row = 0
    /\ printed = <<>>
    /\ DecIdle /\ PubIdle /\ PvIdle

\* Memory::from_reader on the stream
MemoryFromReader ==
    /\ ld_pc = "start"
    /\ memory' = Memory_from_reader(stream)
    /\ ld_pc' = IF memory'.ok THEN "loaded" ELSE "panicked"
    /\ UNCHANGED <<stream, register_states, row, printed, cfgVars, decVars, pubVars, pvVars>>

NextMemory == MemoryFromReader

SpecMemory == InitMemory /\ [][NextMemory]_vars

----------------------------------------------------------------------------
(* ExecutionTrace::from_file (lib.rs).  The program file is taken to be   *)
(* well formed; the register states carry the pc alone, the only register *)
(* the loop reads.                                                         *)

TraceRecords == {[address |-> a, raw |-> r] : a \in 0..MaxAddr, r \in {U256_from(5), MODULUS}}

InitTrace ==
    /\ debug_assertions \in BOOLEAN
    /\ overflow_checks = debug_assertions
    /\ stream \in SeqsUpTo(TraceRecords, MaxTraceRecords)
    /\ register_states \in SeqsUpTo(0..(MaxAddr + 1), MaxRows)
    /\ ld_pc = "start"
    /\ memory = [ok |-> TRUE, cells |-> <<>>]
    /\ row = 0
    /\ printed = <<>>
    /\ DecIdle /\ PubIdle /\ PvIdle

\* lines 213-222: the files are read; Memory::from_file may panic
TraceLoad ==
    /\ ld_pc = "start"
    /\ memory' = Memory_from_file(stream)
    /\ ld_pc' = IF memory'.ok THEN "rows" ELSE "panicked"
    /\ UNCHANGED <<stream, register_states, row, printed, cfgVars, decVars, pubVars, pvVars>>

\* The six flag prefixes the loop prints for a word
PrintedPrefixes(w) == [flag \in 0..5 |-> lib_get_flag_prefix(w, flag)]

\* lines 224-234, one iteration: memory[pc].map(|word| ...)
TraceRow ==
    /\ ld_pc = "rows"
    /\ row < Len(register_states)
    /\ row' = row + 1
    /\ LET cell == mem_index(memory.cells, register_states[row + 1])
       IN  /\ ld_pc' = IF cell.ok THEN "rows" ELSE "panicked"
           /\ printed' = IF cell.ok /\ cell.val.some
                         THEN Append(printed, [row |-> row + 1,
                                               prefixes |-> PrintedPrefixes(cell.val.word)])
                         ELSE printed
    /\ UNCHANGED <<stream, register_states, memory, cfgVars, decVars, pubVars, pvVars>>

\* line 236: todo!()
TraceTodo ==
    /\ ld_pc = "rows"
    /\ row = Len(register_states)
    /\ ld_pc' = "todo"
    /\ UNCHANGED <<stream, register_states, memory, row, printed, cfgVars, decVars, pubVars, pvVars>>

NextTrace ==
    \/ TraceLoad
    \/ TraceRow
    \/ TraceTodo

SpecTrace == InitTrace /\ [][NextTrace]_vars

----------------------------------------------------------------------------
(* The public-input extractor of binary.rs.  A data entry is a numeral:    *)
(* its radix (16 for a 0x prefix, 10 otherwise) and its digits, most       *)
(* significant first.                                                      *)

\* The digits as a number in the radix
RECURSIVE DigitsVal(_, _, _)
DigitsVal(radix, digits, acc) ==
    IF digits = <<>> THEN acc
    ELSE DigitsVal(radix, Tail(digits), acc * radix + Head(digits))

\* U256::from_str: an error on a digit outside the radix
U256_from_str(value_str) ==
    IF \E k \in 1..Len(value_str.digits) : value_str.digits[k] >= value_str.radix
    THEN [ok |-> FALSE, val |-> U256_from(0)]
    ELSE [ok |-> TRUE, val |-> U256_from(DigitsVal(value_str.radix, value_str.digits, 0))]

\* Word::new(U256::from_str(value_str).expect("invalid data item")).into_felt()
data_felt(parsed) ==
    IF ~parsed.ok THEN PanicF("invalid data item", {})
    ELSE IF ~Word_new(parsed.val).ok THEN PanicF("debug_assert", {})
    ELSE Ok(into_felt(Word_new(parsed.val).val), {})

\* The closure of get_public_memory with addresses counted from 0
public_pair_from_zero(i, value_str) ==
    [address |-> i, value |-> data_felt(U256_from_str(value_str))]

\* The closure of get_public_memory: entry i (counted from 0) goes to address i + 1
public_pair(i, value_str) ==
    [address |-> i + 1, value |-> data_felt(U256_from_str(value_str))]

\* CompiledProgram::get_public_memory: the pairs in data order, or the
\* panic of the first entry that fails
get_public_memory(data) ==
    LET pairs == [k \in 1..Len(data) |-> public_pair(k - 1, data[k])]
    IN  IF \E k \in 1..Len(data) : ~pairs[k].value.ok
        THEN [ok |-> FALSE, pairs |-> <<>>]
        ELSE [ok |-> TRUE,
              pairs |-> [k \in 1..Len(data) |-> <<pairs[k].address, pairs[k].value.val>>]]

\* CompiledProgram::get_padding_address_and_value
get_padding_address_and_value(data) == <<Len(data) + 1, F_from(Len(data) + 1)>>

DataSamples ==
    { [radix |-> 16, digits |-> <<1, 15>>],
      [radix |-> 10, digits |-> <<4, 2>>],
      [radix |-> 10, digits |-> <<0>>],
      [radix |-> 10, digits |-> <<1, 10>>] }

InitPublic ==
    /\ debug_assertions \in BOOLEAN
    /\ overflow_checks = debug_assertions
    /\ program \in SeqsUpTo(DataSamples, MaxData)
    /\ pub_call = [fn |-> "none", ret |-> 0]
    /\ DecIdle /\ LdIdle /\ PvIdle

CallGetPublicMemory ==
    /\ pub_call.fn = "none"
    /\ pub_call' = [fn |-> "get_public_memory", ret |-> get_public_memory(program)]
    /\ UNCHANGED <<program, cfgVars, decVars, ldVars, pvVars>>

CallGetPadding ==
    /\ pub_call.fn = "none"
    /\ pub_call' = [fn |-> "get_padding_address_and_value",
                    ret |-> get_padding_address_and_value(program)]
    /\ UNCHANGED <<program, cfgVars, decVars, ldVars, pvVars>>

NextPublic ==
    \/ CallGetPublicMemory
    \/ CallGetPadding

SpecPublic == InitPublic /\ [][NextPublic]_vars

----------------------------------------------------------------------------
(* DefaultCairoProver::generate_proof of prover.rs.  The trace is known by *)
(* its shape: the column counts the Trace type declares, the columns it    *)
(* holds, the extension columns build_extension_columns returns, and the   *)
(* number of FRI layers the proof options give.  The transcript is the     *)
(* sequence of the channel's operations: what the prover absorbs into the  *)
(* public coin and what it draws from it.                                  *)

\* ProverChannel::new seeds the public coin from the AIR
channel_new == <<"seed">>

\* assert_eq!(Self::Trace::NUM_BASE_COLUMNS, base_trace_polys.num_cols()),
\* were it compiled out
base_columns_unchecked(t) == TRUE

\* assert_eq!(Self::Trace::NUM_BASE_COLUMNS, base_trace_polys.num_cols())
base_columns_agree(t) == t.NUM_BASE_COLUMNS = t.base_columns

\* extension_trace.as_ref().map_or(0, Matrix::num_cols)
num_extension_columns(t) ==
    IF t.extension_columns.some THEN t.extension_columns.cols ELSE 0

\* assert_eq!(Self::Trace::NUM_EXTENSION_COLUMNS, num_extension_columns)
extension_columns_agree(t) == t.NUM_EXTENSION_COLUMNS = num_extension_columns(t)

\* The extension commitment left out
commit_extension_trace_skipped(tr, t) == tr

\* if let Some(t) = extension_trace_tree.as_ref() { channel.commit_extension_trace(t.root()) }
commit_extension_trace(tr, t) ==
    IF t.extension_columns.some THEN Append(tr, "absorb_extension_root") ELSE tr

Traces ==
    [NUM_BASE_COLUMNS : 1..MaxCols,
     NUM_EXTENSION_COLUMNS : 0..MaxCols,
     base_columns : 1..MaxCols,
     extension_columns : {[some |-> FALSE, cols |-> 0]}
                           \cup {[some |-> TRUE, cols |-> c] : c \in 1..MaxCols},
     num_layers : 0..MaxFriLayers]

InitProver ==
    /\ debug_assertions \in BOOLEAN
    /\ overflow_checks = debug_assertions
    /\ trace \in Traces
    /\ pv_pc = "start"
    /\ transcript = <<>>
    /\ fri_layers = 0
    /\ outcome = "none"
    /\ DecIdle /\ LdIdle /\ PubIdle

\* A step of generate_proof from position from to position to that leaves
\* the transcript tr
Step(from, to, tr) ==
    /\ pv_pc = from
    /\ pv_pc' = to
    /\ transcript' = tr
    /\ UNCHANGED <<trace, fri_layers, outcome, cfgVars, decVars, ldVars, pubVars>>

\* A failed assert_eq!: the call unwinds, nothing is returned
Panic(from) ==
    /\ pv_pc = from
    /\ pv_pc' = "aborted"
    /\ outcome' = "panic"
    /\ UNCHANGED <<trace, transcript, fri_layers, cfgVars, decVars, ldVars, pubVars>>

\* Air::new, ProverChannel::new
Initialize == Step("start", "base_trace", channel_new)

\* base_trace.interpolate, the assertion on the base column count
BaseTrace ==
    \/ base_columns_agree(trace) /\ Step("base_trace", "commit_base_trace", transcript)
    \/ ~base_columns_agree(trace) /\ Panic("base_trace")

\* channel.commit_base_trace(base_trace_lde_tree.root())
CommitBaseTrace ==
    Step("commit_base_trace", "gen_challenges", Append(transcript, "absorb_base_root"))

\* air.gen_challenges(&mut channel.public_coin), air.gen_hints
GenChallenges ==
    Step("gen_challenges", "build_extension", Append(transcript, "draw_challenges"))

\* trace.build_extension_columns(&challenges), the assertion on its column count
BuildExtension ==
    \/ extension_columns_agree(trace)
          /\ Step("build_extension", "commit_extension_trace", transcript)
    \/ ~extension_columns_agree(trace) /\ Panic("build_extension")

\* The extension trace is interpolated, extended and committed when there is one
CommitExtensionTrace ==
    Step("commit_extension_trace", "gen_composition_coeffs",
         commit_extension_trace(transcript, trace))

\* air.gen_composition_constraint_coeffs(&mut channel.public_coin)
GenCompositionCoeffs ==
    Step("gen_composition_coeffs", "commit_composition_trace",
         Append(transcript, "draw_composition_coeffs"))

\* eval_constraint ... channel.commit_composition_trace(root)
CommitCompositionTrace ==
    Step("commit_composition_trace", "get_ood_point",
         Append(transcript, "absorb_composition_root"))

\* DeepPolyComposer::new(&air, channel.get_ood_point(), ...)
GetOodPoint ==
    Step("get_ood_point", "send_ood_evals", Append(transcript, "draw_ood_point"))

\* channel.send_execution_trace_ood_evals, channel.send_composition_trace_ood_evals
SendOodEvals ==
    Step("send_ood_evals", "gen_deep_coeffs",
         transcript \o <<"absorb_execution_ood_evals", "absorb_composition_ood_evals">>)

\* air.gen_deep_composition_coeffs(&mut channel.public_coin)
GenDeepCoeffs ==
    Step("gen_deep_coeffs", "build_layers", Append(transcript, "draw_deep_coeffs"))

\* fri_prover.build_layers(&mut channel, ...): one layer is committed and
\* its folding challenge drawn
FriBuildLayer ==
    /\ pv_pc = "build_layers"
    /\ fri_layers < trace.num_layers
    /\ fri_layers' = fri_layers + 1
    /\ transcript' = transcript \o <<"absorb_fri_layer_root", "draw_fri_alpha">>
    /\ UNCHANGED <<trace, pv_pc, outcome, cfgVars, decVars, ldVars, pubVars>>

\* fri_prover.build_layers: after the last layer the remainder is sent
FriRemainder ==
    /\ fri_layers = trace.num_layers
    /\ Step("build_layers", "grind_fri_commitments",
            Append(transcript, "absorb_fri_remainder"))

\* channel.grind_fri_commitments()
GrindFriCommitments ==
    Step("grind_fri_commitments", "get_fri_query_positions",
         Append(transcript, "absorb_pow_nonce"))

\* channel.get_fri_query_positions(), fri_prover.into_proof, Queries::new
GetFriQueryPositions ==
    Step("get_fri_query_positions", "build_proof",
         Append(transcript, "draw_query_positions"))

\* Ok(channel.build_proof(queries, fri_proof))
BuildProof ==
    /\ pv_pc = "build_proof"
    /\ pv_pc' = "returned"
    /\ outcome' = "Ok"
    /\ UNCHANGED <<trace, transcript, fri_layers, cfgVars, decVars, ldVars, pubVars>>

NextProver ==
    \/ Initialize
    \/ BaseTrace
    \/ CommitBaseTrace
    \/ GenChallenges
    \/ BuildExtension
    \/ CommitExtensionTrace
    \/ GenCompositionCoeffs
    \/ CommitCompositionTrace
    \/ GetOodPoint
    \/ SendOodEvals
    \/ GenDeepCoeffs
    \/ FriBuildLayer
    \/ FriRemainder
    \/ GrindFriCommitments
    \/ GetFriQueryPositions
    \/ BuildProof

SpecProver == InitProver /\ [][NextProver]_vars

----------------------------------------------------------------------------
(* Claims about the decoder. *)

\* The value of a flag group, read off the instruction fields
GroupOf(f, first, width) ==
    LET bit(k) == B2I((first + k) \in f.flags)
    IN  bit(0) + (IF width > 1 THEN 2 * bit(1) ELSE 0) + (IF width > 2 THEN 4 * bit(2) ELSE 0)

\* C7: for every Word and every flag index i in 0..15, get_flag(w, i) is
\* true exactly when bit 48 + i of w is set, and get_off_dst, get_off_op0,
\* get_off_op1 return bits 0..15, 16..31 and 32..47 of w, each in 0..65535.
C7_FlagsAndOffsets ==
    /\ call.fn = "get_flag" =>
            /\ call.ret <=> (call.arg[1] \in insn.flags)
            /\ call.ret <=> ((word[7 + (call.arg[1] \div 8)] \div (2 ^ (call.arg[1] % 8))) % 2 = 1)
    /\ call.fn = "get_off_dst" =>
            call.ret = insn.off_dst /\ call.ret = word[1] + 256 * word[2] /\ call.ret \in 0..65535
    /\ call.fn = "get_off_op0" =>
            call.ret = insn.off_op0 /\ call.ret = word[3] + 256 * word[4] /\ call.ret \in 0..65535
    /\ call.fn = "get_off_op1" =>
            call.ret = insn.off_op1 /\ call.ret = word[5] + 256 * word[6] /\ call.ret \in 0..65535

\* A set top flag read from a word just below the modulus whose
\* neighbouring offset field is all ones
C7_Witness ==
    /\ call.fn = "get_flag"
    /\ call.arg = <<15>>
    /\ call.ret
    /\ insn.flags = {15}
    /\ insn.off_op1 = 65535
    /\ insn.hi = "below_modulus"
    /\ U256_lt(word, MODULUS)

\* off_op1 + pc - 2^15 on usize: below zero it panics under overflow
\* checks and wraps otherwise
ImmediateAddr(off_op1, pc) ==
    IF off_op1 + pc < 32768 /\ overflow_checks
    THEN PanicU("subtract with overflow", {})
    ELSE Ok(pc + off_op1 - 32768, {})

\* C8: for every Word whose Op1Src group is 1, get_op1_addr is
\* pc + off_op1 - 2^15 (as usize arithmetic computes it) whatever ap, fp
\* and the memory are, and the call indexes no memory cell.
C8_ImmediateOp1Addr ==
    (call.fn = "get_op1_addr" /\ GroupOf(insn, 2, 3) = 1) =>
        /\ call.ret = ImmediateAddr(insn.off_op1, call.arg[1])
        /\ call.ret.reads = {}

\* An immediate operand addressed while the op0 cell is out of range
C8_Witness ==
    /\ call.fn = "get_op1_addr"
    /\ GroupOf(insn, 2, 3) = 1
    /\ call.arg[1] = 1
    /\ call.arg[4] = <<>>
    /\ call.ret.ok
    /\ call.ret.val = 2
    /\ insn.off_op1 = 32769

\* The dst address of a call, read off the instruction fields
DstAddrOf(f, ap, fp) == f.off_dst + (IF 0 \in f.flags THEN fp ELSE ap) - 32768

CellPresent(mem, addr) == addr >= 0 /\ addr < Len(mem) /\ mem[addr + 1].some

\* A well-formed conditional jump whose dst cell is present
JnzCall ==
    /\ call.fn = "get_res"
    /\ GroupOf(insn, 7, 3) = 4
    /\ GroupOf(insn, 5, 2) = 0
    /\ GroupOf(insn, 12, 3) = 0
    /\ GroupOf(insn, 10, 2) # 1
    /\ CellPresent(call.arg[4], DstAddrOf(insn, call.arg[2], call.arg[3]))

JnzDst == into_felt(call.arg[4][DstAddrOf(insn, call.arg[2], call.arg[3]) + 1].word)

\* C9: for a conditional jump (PcUpdate 4, ResLogic 0, Opcode 0,
\* ApUpdate not 1) whose dst cell is present, get_res returns r with
\* dst * r = 1 when dst is not zero and r = 0 when it is; r is zero exactly
\* when dst is; and only the dst cell is read.
C9_JnzResIsInverse ==
    JnzCall =>
        /\ call.ret.ok
        /\ JnzDst # F_zero => F_mul(JnzDst, call.ret.val) = F_one
        /\ JnzDst = F_zero => call.ret.val = F_zero
        /\ (call.ret.val = F_zero) <=> (JnzDst = F_zero)
        /\ call.ret.reads = {DstAddrOf(insn, call.arg[2], call.arg[3])}

\* A conditional jump on dst = 3, whose res is 1/3
C9_Witness ==
    /\ JnzCall
    /\ JnzDst = F_from(3)
    /\ call.ret.val = <<1, 3>>

\* A conditional jump on dst = 0, whose res is 0
C9_WitnessZero ==
    /\ JnzCall
    /\ JnzDst = F_zero
    /\ call.ret.val = F_zero

----------------------------------------------------------------------------
(* Claims about Memory construction and the trace builder. *)

Addresses == {stream[k].address : k \in 1..Len(stream)}

\* The pairs a stream holds and the pairs a Memory holds
StreamPairs == {<<stream[k].address, stream[k].raw>> : k \in 1..Len(stream)}

MemoryPairs ==
    {<<j - 1, memory.cells[j].word>> : j \in {i \in DOMAIN memory.cells : memory.cells[i].some}}

\* The largest address of the stream (0 for an empty stream)
MaxAddress == IF Addresses = {} THEN 0 ELSE CHOOSE a \in Addresses : \A b \in Addresses : b <= a

\* The raw value of the last record written at address a
LastRaw(a) ==
    stream[CHOOSE k \in 1..Len(stream) :
              /\ stream[k].address = a
              /\ \A l \in (k + 1)..Len(stream) : stream[l].address # a].raw

NoConflict ==
    \A k, l \in 1..Len(stream) :
        stream[k].address = stream[l].address => stream[k].raw = stream[l].raw

\* The register state of (processed) row i addresses a None cell inside
\* the range of the memory
AbsentAt(i) ==
    /\ register_states[i] < Len(memory.cells)
    /\ ~memory.cells[register_states[i] + 1].some

\* C4: a RegisterState whose pc addresses an absent Memory cell produces
\* a MalformedInput error at that row: the row is not skipped, and no
\* later row is processed.
C4_AbsentPcIsMalformed ==
    \A i \in 1..row :
        AbsentAt(i) => (ld_pc = "malformed_input" /\ row = i)

\* C5: Memory construction fails whenever a record carries a raw value
\* >= the modulus, in every build configuration; no constructed Memory
\* holds a Word >= the modulus.
C5_OversizedWordsRejected ==
    ld_pc \in {"loaded", "panicked"} =>
        /\ (\E k \in 1..Len(stream) : ~U256_lt(stream[k].raw, MODULUS)) => ~memory.ok
        /\ memory.ok =>
              \A j \in DOMAIN memory.cells :
                  memory.cells[j].some => U256_lt(memory.cells[j].word, MODULUS)

\* C6 as stated: for every stream the present cells are exactly the
\* records of the stream, unwritten addresses are absent, and the length
\* is the maximum address + 1.
C6_PairsEqualForEveryStream ==
    ld_pc = "loaded" =>
        /\ MemoryPairs = StreamPairs
        /\ \A a \in 0..(Len(memory.cells) - 1) :
              a \notin Addresses => memory.cells[a + 1] = None
        /\ Len(memory.cells) = MaxAddress + 1

\* C6 amended: every written address holds the value of its last record,
\* every other address is None, the length is the maximum address + 1 (1
\* for an empty stream); and when no address is written with two
\* different values, the present cells are exactly the records.
C6_MemoryMatchesStream ==
    ld_pc = "loaded" =>
        /\ \A a \in 0..(Len(memory.cells) - 1) :
              memory.cells[a + 1] = IF a \in Addresses THEN Some(LastRaw(a)) ELSE None
        /\ Len(memory.cells) = MaxAddress + 1
        /\ Addresses \subseteq 0..(Len(memory.cells) - 1)
        /\ NoConflict => MemoryPairs = StreamPairs

\* Three records out of address order, one address repeated with the same
\* value, one address in between never written
C6_Witness ==
    /\ ld_pc = "loaded"
    /\ Len(stream) = 3
    /\ stream[1].address = 2
    /\ stream[2].address = 0
    /\ stream[3].address = 2
    /\ NoConflict
    /\ memory.cells[2] = None
    /\ Cardinality(MemoryPairs) = 2

----------------------------------------------------------------------------
(* Claims about the public-input extractor. *)

Readable(value_str) == \A k \in 1..Len(value_str.digits) : value_str.digits[k] < value_str.radix

\* C10: for a program with n (readable) data entries, get_public_memory
\* returns n pairs whose addresses are 1..n in data order, never 0, each
\* value the entry read as a field element; the padding address and value
\* are n + 1 and n + 1 in the field, one past the last public address.
C10_PublicMemoryAddresses ==
    /\ pub_call.fn = "get_public_memory" =>
          /\ pub_call.ret.ok <=> \A k \in 1..Len(program) : Readable(program[k])
          /\ pub_call.ret.ok =>
                /\ Len(pub_call.ret.pairs) = Len(program)
                /\ \A k \in 1..Len(program) :
                      /\ pub_call.ret.pairs[k][1] = k
                      /\ pub_call.ret.pairs[k][2]
                            = F_from(DigitsVal(program[k].radix, program[k].digits, 0))
                /\ \A k \in 1..Len(program) : pub_call.ret.pairs[k][1] # 0
                /\ \A k, l \in 1..Len(program) :
                      k # l => pub_call.ret.pairs[k][1] # pub_call.ret.pairs[l][1]
    /\ pub_call.fn = "get_padding_address_and_value" =>
          /\ pub_call.ret = <<Len(program) + 1, F_from(Len(program) + 1)>>
          /\ pub_call.ret[1] \notin 1..Len(program)

\* Three entries, hexadecimal and decimal, at addresses 1, 2, 3
C10_Witness ==
    /\ pub_call.fn = "get_public_memory"
    /\ pub_call.ret.ok
    /\ pub_call.ret.pairs = << <<1, F_from(31)>>, <<2, F_from(42)>>, <<3, F_from(0)>> >>

\* The padding address of a program of three entries
C10_WitnessPadding ==
    /\ pub_call.fn = "get_padding_address_and_value"
    /\ Len(program) = 3
    /\ pub_call.ret = <<4, F_from(4)>>

----------------------------------------------------------------------------
(* Claims about generate_proof. *)

\* The places of an operation in the transcript
Places(e) == {k \in 1..Len(transcript) : transcript[k] = e}

\* Operation b happens only after operation a has happened
Before(a, b) ==
    \A k \in Places(b) : \E j \in Places(a) : j < k

\* What the prover absorbs into the public coin and what it draws from it
Absorptions == {"absorb_base_root", "absorb_extension_root", "absorb_composition_root",
                "absorb_execution_ood_evals", "absorb_composition_ood_evals",
                "absorb_fri_layer_root", "absorb_fri_remainder", "absorb_pow_nonce"}

Draws == {"draw_challenges", "draw_composition_coeffs", "draw_ood_point",
          "draw_deep_coeffs", "draw_fri_alpha", "draw_query_positions"}

\* The commitment each draw answers
Preceding(d) ==
    CASE d = "draw_challenges" -> "absorb_base_root"
      [] d = "draw_composition_coeffs" ->
            IF trace.extension_columns.some THEN "absorb_extension_root"
            ELSE "absorb_base_root"
      [] d = "draw_ood_point" -> "absorb_composition_root"
      [] d = "draw_deep_coeffs" -> "absorb_composition_ood_evals"
      [] d = "draw_fri_alpha" -> "absorb_fri_layer_root"
      [] d = "draw_query_positions" -> "absorb_pow_nonce"

\* C1: the transcript of generate_proof keeps the stage order: base root
\* before the extension challenges, extension root (when there is an
\* extension trace) before the composition coefficients, composition root
\* before the out-of-domain point, out-of-domain evaluations before the
\* DEEP coefficients, every FRI layer before grinding, query positions
\* after grinding; and no draw comes before the absorption of the stage
\* before it (each folding challenge right after its own layer root).
C1_StageOrder ==
    /\ Before("absorb_base_root", "draw_challenges")
    /\ trace.extension_columns.some
          => Before("absorb_extension_root", "draw_composition_coeffs")
    /\ Before("absorb_composition_root", "draw_ood_point")
    /\ Before("absorb_execution_ood_evals", "draw_deep_coeffs")
    /\ Before("absorb_composition_ood_evals", "draw_deep_coeffs")
    /\ \A k \in Places("absorb_pow_nonce") :
          /\ Cardinality({j \in Places("absorb_fri_layer_root") : j < k})
                = trace.num_layers
          /\ \E j \in Places("absorb_fri_remainder") : j < k
    /\ Before("absorb_pow_nonce", "draw_query_positions")
    /\ \A d \in Draws : Before(Preceding(d), d)
    /\ \A k \in Places("draw_fri_alpha") :
          k > 1 /\ transcript[k - 1] = "absorb_fri_layer_root"
    /\ \A e \in Absorptions \ {"absorb_fri_layer_root"} : Cardinality(Places(e)) <= 1

\* A proof was returned for a trace with an extension trace and two FRI layers
C1_Witness ==
    /\ outcome = "Ok"
    /\ trace.extension_columns.some
    /\ trace.num_layers = 2
    /\ Places("absorb_extension_root") # {}
    /\ Cardinality(Places("draw_fri_alpha")) = 2
    /\ transcript[Len(transcript)] = "draw_query_positions"

\* C2 as stated: whenever generate_proof aborts on a column-count
\* disagreement, no root has been absorbed and no challenge drawn.
C2_AbortBeforeAnyAbsorption ==
    pv_pc = "aborted" =>
        \A k \in 1..Len(transcript) : transcript[k] \notin Absorptions \cup Draws

\* C2 amended: an abort on the base-column count leaves a transcript that
\* was seeded and nothing more; an abort on the extension-column count
\* leaves exactly the base root absorbed and the extension challenges
\* drawn: no extension root, no composition coefficient, nothing later.
C2_AbortPoints ==
    /\ (trace.NUM_BASE_COLUMNS # trace.base_columns /\ pv_pc \notin {"start", "base_trace"})
          => /\ pv_pc = "aborted"
             /\ transcript = <<"seed">>
    /\ (pv_pc = "aborted" /\ trace.NUM_BASE_COLUMNS = trace.base_columns)
          => /\ trace.NUM_EXTENSION_COLUMNS # num_extension_columns(trace)
             /\ transcript = <<"seed", "absorb_base_root", "draw_challenges">>
    /\ (trace.NUM_EXTENSION_COLUMNS # num_extension_columns(trace)
          /\ pv_pc \notin {"start", "base_trace", "commit_base_trace",
                           "gen_challenges", "build_extension"})
          => pv_pc = "aborted"

\* An abort on the extension-column count, the base columns agreeing
C2_Witness ==
    /\ pv_pc = "aborted"
    /\ trace.NUM_BASE_COLUMNS = trace.base_columns
    /\ trace.NUM_EXTENSION_COLUMNS = 1
    /\ trace.extension_columns = [some |-> TRUE, cols |-> 2]

\* An abort on the base-column count
C2_WitnessBase ==
    /\ pv_pc = "aborted"
    /\ trace.NUM_BASE_COLUMNS = 1
    /\ trace.base_columns = 2
    /\ transcript = <<"seed">>

\* C3: a column-count disagreement ends generate_proof with the Err side
\* of its Result, never with a panic and never with a Proof.
C3_ErrorsAreTypedFailures ==
    (/\ \/ trace.NUM_BASE_COLUMNS # trace.base_columns
        \/ trace.NUM_EXTENSION_COLUMNS # num_extension_columns(trace)
     /\ pv_pc \in {"aborted", "returned"})
        => outcome = "Err"

----------------------------------------------------------------------------
(* Claims about get_res, get_tmp0 and get_tmp1. *)

\* The operands of the last call, as the operand accessors return them
\* for its registers and memory (pc, ap, fp, mem are the last four, three
\* or four arguments of the call)
ResOp0 == get_op0(word, call.arg[2], call.arg[3], call.arg[4])
ResOp1 == get_op1(word, call.arg[1], call.arg[2], call.arg[3], call.arg[4])
ResDst == get_dst(word, call.arg[2], call.arg[3], call.arg[4])

\* The decoding cases in which the whitepaper defines res
ResDefined ==
    \/ GroupOf(insn, 7, 3) \in {0, 1, 2} /\ GroupOf(insn, 5, 2) \in {0, 1, 2}
    \/ /\ GroupOf(insn, 7, 3) = 4
       /\ GroupOf(insn, 5, 2) = 0
       /\ GroupOf(insn, 12, 3) = 0
       /\ GroupOf(insn, 10, 2) # 1

\* C11: with the operand cells present, get_res yields a value exactly in
\* the defined cases: for PcUpdate 0, 1, 2 it is op1, op0 + op1, op0 * op1
\* for ResLogic 0, 1, 2 and a failure (unreachable!) for ResLogic 3; for
\* PcUpdate 4 it fails unless ResLogic = 0, Opcode = 0 and ApUpdate # 1;
\* for PcUpdate 3, 5, 6, 7 it always fails.
C11_ResDecodingCases ==
    call.fn = "get_res" =>
        /\ (GroupOf(insn, 7, 3) \in {0, 1, 2} /\ ResOp0.ok /\ ResOp1.ok) =>
              /\ GroupOf(insn, 5, 2) = 0 => (call.ret.ok /\ call.ret.val = ResOp1.val)
              /\ GroupOf(insn, 5, 2) = 1 =>
                    (call.ret.ok /\ call.ret.val = F_add(ResOp0.val, ResOp1.val))
              /\ GroupOf(insn, 5, 2) = 2 =>
                    (call.ret.ok /\ call.ret.val = F_mul(ResOp0.val, ResOp1.val))
              /\ GroupOf(insn, 5, 2) = 3 => (~call.ret.ok /\ call.ret.msg = "unreachable")
        /\ GroupOf(insn, 7, 3) = 4 =>
              IF ResDefined THEN ResDst.ok => call.ret.ok
              ELSE ~call.ret.ok /\ call.ret.msg = "unreachable" /\ call.ret.reads = {}
        /\ GroupOf(insn, 7, 3) \in {3, 5, 6, 7} =>
              (~call.ret.ok /\ call.ret.msg = "unreachable" /\ call.ret.reads = {})
        /\ (ResOp0.ok /\ ResOp1.ok /\ ResDst.ok) => (call.ret.ok <=> ResDefined)

\* A product: op0 = 2 and op1 = 2 taken from memory, res = 4
C11_Witness ==
    /\ call.fn = "get_res"
    /\ GroupOf(insn, 7, 3) = 1
    /\ GroupOf(insn, 5, 2) = 2
    /\ ResOp0.ok /\ ResOp0.val = F_from(2)
    /\ ResOp1.ok /\ ResOp1.val = F_from(2)
    /\ call.ret.ok
    /\ call.ret.val = F_from(4)

\* ResLogic 3 with both operands present: the call fails
C11_WitnessMalformed ==
    /\ call.fn = "get_res"
    /\ GroupOf(insn, 7, 3) = 0
    /\ GroupOf(insn, 5, 2) = 3
    /\ ResOp0.ok /\ ResOp1.ok /\ ResDst.ok
    /\ ~call.ret.ok

----------------------------------------------------------------------------
(* Claims about the flag prefixes. *)

\* The integer formed by the flags i..14 of the instruction, flag i lowest
RECURSIVE PrefixOf(_, _)
PrefixOf(f, i) ==
    IF i > 14 THEN 0 ELSE B2I(i \in f.flags) + 2 * PrefixOf(f, i + 1)

\* C12: for every Word and every flag index i in 0..14, get_flag_prefix(i)
\* is the sum over j in i..14 of 2^(j-i) * flag_j, so that
\* get_flag_prefix(i) - 2 * get_flag_prefix(i+1) is flag_i; and
\* get_flag_prefix(15) is 0 for every Word, bit 63 set or not.
C12_FlagPrefix ==
    call.fn = "get_flag_prefix" =>
        /\ call.arg[1] \in 0..14 =>
              /\ call.ret = PrefixOf(insn, call.arg[1])
              /\ call.ret - 2 * get_flag_prefix(word, call.arg[1] + 1)
                    = B2I(call.arg[1] \in insn.flags)
              /\ call.ret \in 0..(2 ^ (15 - call.arg[1]) - 1)
        /\ call.arg[1] = 15 => call.ret = 0

\* The prefix at flag 3 of a word with every flag but flag 5 set, over
\* all-ones neighbours: bits 3, 4 and 6..14, without bit 15
C12_Witness ==
    /\ call.fn = "get_flag_prefix"
    /\ call.arg = <<3>>
    /\ insn.flags = Flags \ {5}
    /\ insn.off_op1 = 65535
    /\ insn.hi = "below_modulus"
    /\ call.ret = 4095 - 4

\* The prefix of the padding flag of a word whose bit 63 is set
C12_WitnessPadding ==
    /\ call.fn = "get_flag_prefix"
    /\ call.arg = <<15>>
    /\ 15 \in insn.flags
    /\ word[8] >= 128
    /\ call.ret = 0

\* C13: the decoder of lib.rs agrees with the decoder of binary.rs: for
\* every Word and each of the 16 flags get_flag_prefix returns the same
\* integer, and get_flag and get_flag_group agree likewise.
C13_DecodersAgree ==
    /\ call.fn = "lib_get_flag_prefix" => call.ret = get_flag_prefix(word, call.arg[1])
    /\ call.fn = "lib_get_flag" => (call.ret <=> get_flag(word, call.arg[1]))
    /\ call.fn = "lib_get_flag_group" => call.ret = get_flag_group(word, call.arg[1])

----------------------------------------------------------------------------
(* Claims about tmp0 and tmp1. *)

\* The registers and memory of a get_tmp0 call (ap, fp, mem) and of a
\* get_tmp1 call (pc, ap, fp, mem)
Tmp0Dst == get_dst(word, call.arg[1], call.arg[2], call.arg[3])
Tmp1Tmp0 == get_tmp0(word, call.arg[2], call.arg[3], call.arg[4])
Tmp1Res == get_res(word, call.arg[1], call.arg[2], call.arg[3], call.arg[4])

\* The dst cell of a get_tmp0 call, read off the instruction fields
Tmp0DstPresent == CellPresent(call.arg[3], DstAddrOf(insn, call.arg[1], call.arg[2]))
Tmp0DstCell == into_felt(call.arg[3][DstAddrOf(insn, call.arg[1], call.arg[2]) + 1].word)

\* A well-formed conditional jump, its dst cell present, under get_tmp1
JnzTmp1 ==
    /\ call.fn = "get_tmp1"
    /\ GroupOf(insn, 7, 3) = 4
    /\ GroupOf(insn, 5, 2) = 0
    /\ GroupOf(insn, 12, 3) = 0
    /\ GroupOf(insn, 10, 2) # 1
    /\ CellPresent(call.arg[4], DstAddrOf(insn, call.arg[2], call.arg[3]))

\* C14: get_tmp0 is dst when the PcJnz flag is set and 0 otherwise;
\* get_tmp1 is get_tmp0 * get_res; so for a well-formed conditional jump
\* whose dst cell is present get_tmp1 is 1 when dst # 0 and 0 when dst = 0,
\* and for a Word with PcJnz clear get_tmp1 is 0 whenever get_res is defined.
C14_Tmp0Tmp1 ==
    /\ call.fn = "get_tmp0" =>
          /\ FLAG_PC_JNZ \in insn.flags => call.ret = Tmp0Dst
          /\ (FLAG_PC_JNZ \in insn.flags /\ Tmp0DstPresent) =>
                (call.ret.ok /\ call.ret.val = Tmp0DstCell)
          /\ FLAG_PC_JNZ \notin insn.flags =>
                (call.ret.ok /\ call.ret.val = F_zero /\ call.ret.reads = {})
    /\ call.fn = "get_tmp1" =>
          /\ call.ret.ok <=> (Tmp1Tmp0.ok /\ Tmp1Res.ok)
          /\ call.ret.ok => call.ret.val = F_mul(Tmp1Tmp0.val, Tmp1Res.val)
          /\ (FLAG_PC_JNZ \notin insn.flags /\ Tmp1Res.ok) =>
                (call.ret.ok /\ call.ret.val = F_zero)
    /\ JnzTmp1 =>
          /\ call.ret.ok
          /\ call.ret.val =
                IF into_felt(call.arg[4][DstAddrOf(insn, call.arg[2], call.arg[3]) + 1].word)
                      = F_zero
                THEN F_zero ELSE F_one

\* A conditional jump on dst = 3: tmp1 = 3 * (1/3) = 1
C14_Witness ==
    /\ JnzTmp1
    /\ into_felt(call.arg[4][DstAddrOf(insn, call.arg[2], call.arg[3]) + 1].word) = F_from(3)
    /\ call.ret.val = F_one

\* A conditional jump on dst = 0: tmp1 = 0
C14_WitnessZero ==
    /\ JnzTmp1
    /\ into_felt(call.arg[4][DstAddrOf(insn, call.arg[2], call.arg[3]) + 1].word) = F_zero
    /\ call.ret.val = F_zero

\* PcJnz clear and res = op0 + op1 = 4: tmp1 = 0
C14_WitnessNoJump ==
    /\ call.fn = "get_tmp1"
    /\ FLAG_PC_JNZ \notin insn.flags
    /\ Tmp1Res.ok
    /\ Tmp1Res.val = F_from(4)
    /\ call.ret.val = F_zero

\* get_tmp0 of a word with PcJnz set: the dst cell, 2
C14_WitnessTmp0 ==
    /\ call.fn = "get_tmp0"
    /\ FLAG_PC_JNZ \in insn.flags
    /\ Tmp0DstPresent
    /\ call.ret.val = F_from(2)

====
